---- MODULE Spec2Model ----
(***************************************************************************)
(* Model of the two utilities of the repository:                           *)
(*   src/YTPI.py                            (Streamlit idea generator)     *)
(*   src/dsp_streamlit/reportwriter_final.py (command-line report writer)  *)
(* A behaviour is one script run of one of the two utilities.              *)
(* Strings are sequences of tokens, so that join/split/replace are real    *)
(* computations on text.                                                   *)
(***************************************************************************)
EXTENDS Integers, Sequences, FiniteSets, TLC

(* ---- bounds ---- *)
MaxVideos == 2      \* size of the universe of videos a search can return
MaxInvalid == 1     \* invalid console answers accepted before a valid one

VARIABLES
  prog,                \* which utility is executing: "ytpi" or "report"
  apiKey,              \* OPENAI_API_KEY is set in the environment
  pc,                  \* position of the running script
  raised,              \* uncaught exception that ended the script, or "none"
  search_keyword,      \* st.text_input value
  button,              \* st.button value of this run
  videos_df,           \* urls of the search result rows, in row order
  selected_bound,      \* the local name selected_videos has been assigned
  selected_videos,     \* urls whose checkbox is ticked, in row order
  idx,                 \* position of the for loop over selected_videos
  audio_path,          \* local audio_path (<<>> is None)
  all_transcripts,     \* local all_transcripts
  combined_transcript, \* local combined_transcript
  idea,                \* local idea
  rows,                \* rows of table ideas, in insertion order
  files,               \* files existing in the working directory
  ui,                  \* st.error / st.warning / st.success calls of this run
  calls,               \* collaborator calls of this run, with their results
  choice,              \* report writer: template choice
  template,            \* report writer: loaded template (<<>> is None or "")
  format,              \* report writer: output format
  project_name,        \* report writer: project name
  filled_sections,     \* report writer: filled_sections
  sidx,                \* report writer: position of the loop over sections
  failed_sections,     \* report writer: indexes of sections whose chain raised
  report_content,      \* report writer: return value of generate_report
  reports,             \* report writer: files written by save_report
  inputs_read,         \* report writer: number of input() calls made
  invalid              \* report writer: invalid answers given so far

vars == <<prog, apiKey, pc, raised, search_keyword, button, videos_df,
          selected_bound, selected_videos, idx, audio_path, all_transcripts,
          combined_transcript, idea, rows, files, ui, calls, choice, template,
          format, project_name, filled_sections, sidx, failed_sections,
          report_content, reports, inputs_read, invalid>>

ytVars == <<search_keyword, button, videos_df, selected_bound,
            selected_videos, idx, audio_path, all_transcripts,
            combined_transcript, idea, rows, files, ui, calls>>

rwVars == <<choice, template, format, project_name, filled_sections, sidx,
            failed_sections, report_content, reports, inputs_read, invalid>>

(* ---- text helpers ---- *)
None == <<>>

RECURSIVE Join(_, _)
\* sep.join(list)
Join(list, sep) ==
  IF list = <<>> THEN <<>>
  ELSE IF Len(list) = 1 THEN list[1]
  ELSE list[1] \o sep \o Join(Tail(list), sep)

RECURSIVE Split(_, _)
\* text.split(sep) for a one-token separator
Split(text, sep) ==
  IF \A k \in 1..Len(text) : text[k] # sep THEN <<text>>
  ELSE LET k == CHOOSE j \in 1..Len(text) :
                  text[j] = sep /\ \A m \in 1..(j-1) : text[m] # sep
       IN <<SubSeq(text, 1, k-1)>> \o Split(SubSeq(text, k+1, Len(text)), sep)

\* text.replace(old, new) for one-token old and new
Replace(text, old, new) ==
  [k \in 1..Len(text) |-> IF text[k] = old THEN new ELSE text[k]]

\* Path(url).stem: the last path component, without its last suffix
Stem(url) ==
  LET slashes == {k \in 1..Len(url) : url[k] = "/"}
      last == IF slashes = {} THEN 0
              ELSE CHOOSE k \in slashes : \A m \in slashes : m <= k
      name == SubSeq(url, last + 1, Len(url))
      dots == {k \in 2..Len(name) : name[k] = "."}
  IN IF dots = {} THEN name
     ELSE SubSeq(name, 1, (CHOOSE k \in dots : \A m \in dots : m <= k) - 1)

(* ---- the videos a search can return ---- *)
VideoIds == <<"idA", "idB", "idC", "idD">>

\* get_video_info: url = f"https://youtube.com/watch?v={video.video_id}"
VideoUrl(v) == <<"https:", "/", "/", "youtube.com", "/", "watch?v=", VideoIds[v]>>

\* the text Whisper extracts from the audio of a video that has speech
Speech(url) == <<"speech of ", url[Len(url)]>>

\* download_audio: the path it returns
AudioPath(url) == <<"temp_audio_">> \o Stem(url) \o <<".", "mp3">>

\* the file yt-dlp leaves when the download fails after writing
PartialPath(url) == <<"temp_audio_">> \o Stem(url) \o <<".", "webm">>

FailureKinds == {"TRANSIENT", "PERMANENT"}

\* one call of a collaborator: its argument, how it ended, what it returned
Call(stage, arg, result, out) ==
  [stage |-> stage, arg |-> arg, result |-> result, out |-> out]

\* one st.error / st.warning / st.success call
Msg(level, stage, detail) ==
  [level |-> level, stage |-> stage, detail |-> detail]

\* str(e) of an exception raised while working on url: the text is the
\* collaborator's, it may or may not mention the video
ExceptionTexts(url) == {<<"error">>, <<"error", url[Len(url)]>>}


(* ---- Python truth tests of main ---- *)
\* variant of HasAudio: the result of download_audio is not tested
HasAudioUntested(path) == TRUE

\* line 215: if audio_path
HasAudio(path) == path # None

\* variant of HasText: the transcript is appended without the test
HasTextUntested(text) == TRUE

\* line 218: if transcript
HasText(text) == text # <<>>

\* line 227: if all_transcripts
HasTranscripts(list) == list # <<>>

\* line 237: if idea
HasIdea(text) == text # <<>>

\* line 207: ... and selected_videos
HasSelection(list) == list # <<>>

(* ---- initial state ---- *)
\* lines 16-28: table ideas as init_db finds it, empty or left by an earlier
\* run of the script
StoredRows ==
  { <<>>,
    <<[id |-> 1, video_urls |-> VideoUrl(1), transcript |-> Speech(VideoUrl(1)),
       idea |-> <<"idea">>]>> }

Init ==
  /\ prog \in {"ytpi", "report"}
  /\ apiKey \in BOOLEAN
  /\ pc = IF prog = "ytpi" THEN "start" ELSE "import"
  /\ raised = "none"
  /\ search_keyword = <<>>
  /\ button = FALSE
  /\ videos_df = <<>>
  /\ selected_bound = FALSE
  /\ selected_videos = <<>>
  /\ idx = 0
  /\ audio_path = None
  /\ all_transcripts = <<>>
  /\ combined_transcript = <<>>
  /\ idea = <<>>
  /\ rows \in StoredRows
  /\ files = {}
  /\ ui = <<>>
  /\ calls = <<>>
  /\ choice = ""
  /\ template = None
  /\ format = ""
  /\ project_name = <<>>
  /\ filled_sections = <<>>
  /\ sidx = 0
  /\ failed_sections = {}
  /\ report_content = <<>>
  /\ reports = {}
  /\ inputs_read = 0
  /\ invalid = 0

(* ---- src/YTPI.py ---- *)
\* the rows of a search result: the first n videos, n <= MaxVideos
SearchResults == {[k \in 1..n |-> VideoUrl(k)] : n \in 0..MaxVideos}

RECURSIVE Ticked(_, _)
\* lines 191-203: the urls of the rows whose checkbox is in ticks, in row order
Ticked(df, ticks) ==
  IF df = <<>> THEN <<>>
  ELSE LET rest == Ticked(SubSeq(df, 1, Len(df) - 1), ticks)
       IN IF Len(df) \in ticks THEN Append(rest, df[Len(df)]) ELSE rest

\* The script run starts (lines 158-181) with the current widget values.
RunScript ==
  /\ prog = "ytpi"
  /\ pc = "start"
  /\ \E kw \in {<<>>, <<"keyword">>} : search_keyword' = kw
  /\ button' \in BOOLEAN
  /\ pc' = "search"
  /\ UNCHANGED <<prog, apiKey, raised, videos_df, selected_bound,
                 selected_videos, idx, audio_path, all_transcripts,
                 combined_transcript, idea, rows, files, ui, calls>>
  /\ UNCHANGED rwVars

\* lines 183-204: search and selection
SearchVideos ==
  /\ prog = "ytpi"
  /\ pc = "search"
  /\ IF search_keyword = <<>>
       THEN UNCHANGED <<videos_df, selected_bound, selected_videos, ui>>
       ELSE \/ \E df \in SearchResults :
                 /\ videos_df' = df
                 /\ IF df # <<>>
                      THEN \E ticks \in SUBSET (1..Len(df)) :
                             /\ selected_bound' = TRUE
                             /\ selected_videos' = Ticked(df, ticks)
                      ELSE UNCHANGED <<selected_bound, selected_videos>>
                 /\ UNCHANGED ui
            \/ \* lines 70-72: the search raised
               /\ videos_df' = <<>>
               /\ ui' = Append(ui, Msg("error", "search", <<"error">>))
               /\ UNCHANGED <<selected_bound, selected_videos>>
  /\ pc' = "button"
  /\ UNCHANGED <<prog, apiKey, raised, search_keyword, button, idx,
                 audio_path, all_transcripts, combined_transcript, idea, rows,
                 files, calls>>
  /\ UNCHANGED rwVars

\* line 207: if st.button(...) and selected_videos; lines 208-209
GenerateButton ==
  /\ prog = "ytpi"
  /\ pc = "button"
  /\ IF ~button
       THEN pc' = "idle" /\ UNCHANGED <<raised, idx>>
       ELSE IF ~selected_bound
         THEN pc' = "idle" /\ raised' = "UnboundLocalError" /\ UNCHANGED idx
         ELSE IF HasSelection(selected_videos)
           THEN pc' = "download" /\ idx' = 1 /\ UNCHANGED raised
           ELSE pc' = "idle" /\ UNCHANGED <<raised, idx>>
  /\ UNCHANGED <<prog, apiKey, search_keyword, button, videos_df,
                 selected_bound, selected_videos, audio_path, all_transcripts,
                 combined_transcript, idea, rows, files, ui, calls>>
  /\ UNCHANGED rwVars

\* line 212: the for loop moves to the next url, or ends
LoopNext ==
  /\ idx' = idx + 1
  /\ pc' = IF idx + 1 > Len(selected_videos) THEN "generate" ELSE "download"

\* variant of DownloadFailed: the failure ends the loop over the urls
DownloadFailedBreak(url, kind, wrote, e) ==
  /\ files' = IF wrote THEN files \cup {PartialPath(url)} ELSE files
  /\ audio_path' = None
  /\ calls' = Append(calls, Call("download", url, kind, None))
  /\ ui' = Append(ui, Msg("error", "download", e))
  /\ pc' = "idle"
  /\ UNCHANGED idx

\* variant of DownloadFailed: a first transient failure is not shown and the
\* download of the same url is attempted again
DownloadFailedRetry(url, kind, wrote, e) ==
  /\ files' = IF wrote THEN files \cup {PartialPath(url)} ELSE files
  /\ audio_path' = None
  /\ calls' = Append(calls, Call("download", url, kind, None))
  /\ IF kind = "TRANSIENT" /\ \A k \in DOMAIN calls : calls[k].arg # url
       THEN UNCHANGED <<ui, pc, idx>>
       ELSE /\ ui' = Append(ui, Msg("error", "download", e))
            /\ LoopNext

\* lines 88-90 and 215: download_audio caught an exception, shows it and
\* returns None; main goes on with the next url
DownloadFailed(url, kind, wrote, e) ==
  /\ files' = IF wrote THEN files \cup {PartialPath(url)} ELSE files
  /\ audio_path' = None
  /\ calls' = Append(calls, Call("download", url, kind, None))
  /\ ui' = Append(ui, Msg("error", "download", e))
  /\ IF HasAudio(None)
       THEN pc' = "transcribe" /\ UNCHANGED idx
       ELSE LoopNext

\* lines 74-90 and 214-215: download_audio(url) and the test of its result
DownloadAudio ==
  /\ prog = "ytpi"
  /\ pc = "download"
  /\ LET url == selected_videos[idx] IN
       \/ \* line 87: the download and the conversion succeeded
          /\ files' = files \cup {AudioPath(url)}
          /\ audio_path' = AudioPath(url)
          /\ calls' = Append(calls, Call("download", url, "ok", AudioPath(url)))
          /\ UNCHANGED ui
          /\ IF HasAudio(AudioPath(url))
               THEN pc' = "transcribe" /\ UNCHANGED idx
               ELSE LoopNext
       \/ \* lines 88-90: yt-dlp raised, before or after writing a file
          \E kind \in FailureKinds, wrote \in BOOLEAN, e \in ExceptionTexts(url) :
            DownloadFailed(url, kind, wrote, e)
  /\ UNCHANGED <<prog, apiKey, raised, search_keyword, button, videos_df,
                 selected_bound, selected_videos, all_transcripts,
                 combined_transcript, idea, rows>>
  /\ UNCHANGED rwVars

\* lines 92-107 and 217-219: transcribe_audio(audio_path) and the append
TranscribeAudio ==
  /\ prog = "ytpi"
  /\ pc = "transcribe"
  /\ LET url == selected_videos[idx] IN
       \/ \* line 104: Whisper returned a text, possibly empty
          /\ audio_path \in files
          /\ \E text \in {<<>>, Speech(url)} :
               /\ calls' = Append(calls, Call("transcribe", url, "ok", text))
               /\ all_transcripts' = IF HasText(text)
                                       THEN Append(all_transcripts, text)
                                       ELSE all_transcripts
          /\ UNCHANGED ui
       \/ \* lines 105-107: loading the model or the audio raised
          \E kind \in FailureKinds, e \in ExceptionTexts(url) :
            /\ audio_path \notin files => kind = "PERMANENT"
            /\ calls' = Append(calls, Call("transcribe", url, kind, <<>>))
            /\ ui' = Append(ui, Msg("error", "transcribe", e))
            /\ all_transcripts' = IF HasText(<<>>)
                                    THEN Append(all_transcripts, <<>>)
                                    ELSE all_transcripts
  /\ pc' = "remove"
  /\ UNCHANGED <<prog, apiKey, raised, search_keyword, button, videos_df,
                 selected_bound, selected_videos, idx, audio_path,
                 combined_transcript, idea, rows, files>>
  /\ UNCHANGED rwVars

\* lines 221-225: os.remove(audio_path), a failure is only warned about
RemoveTemp ==
  /\ prog = "ytpi"
  /\ pc = "remove"
  /\ LET url == selected_videos[idx] IN
       \/ /\ audio_path \in files
          /\ files' = files \ {audio_path}
          /\ calls' = Append(calls, Call("remove", url, "ok", audio_path))
          /\ UNCHANGED ui
       \/ /\ UNCHANGED files
          /\ calls' = Append(calls, Call("remove", url, "PERMANENT", audio_path))
          /\ ui' = Append(ui, Msg("warning", "remove", <<"error">>))
  /\ LoopNext
  /\ UNCHANGED <<prog, apiKey, raised, search_keyword, button, videos_df,
                 selected_bound, selected_videos, audio_path, all_transcripts,
                 combined_transcript, idea, rows>>
  /\ UNCHANGED rwVars


\* variant of CombinedTranscript: the transcripts are joined by a space
CombinedTranscriptSpaced(list) == Join(list, <<" ">>)

\* line 235: combined_transcript = "\n".join(all_transcripts)
CombinedTranscript(list) == Join(list, <<"\n">>)

\* line 112: the text generate_idea puts in the prompt
PromptTranscript(list) == Join(list, <<"\n">>)

\* line 129: urls_str = ", ".join(video_urls)
UrlsStr(video_urls) == Join(video_urls, <<", ">>)

\* lines 227-237 and 245-246, with generate_idea (lines 109-123)
GenerateIdea ==
  /\ prog = "ytpi"
  /\ pc = "generate"
  /\ IF HasTranscripts(all_transcripts)
       THEN /\ combined_transcript' = CombinedTranscript(all_transcripts)
            /\ \/ \* line 120: the completion returned a content
                  /\ apiKey
                  /\ \E content \in {<<>>, <<"idea">>} :
                       /\ idea' = content
                       /\ calls' = Append(calls,
                            Call("generate", PromptTranscript(all_transcripts),
                                 "ok", content))
                       /\ pc' = IF HasIdea(content) THEN "save" ELSE "idle"
                  /\ UNCHANGED ui
               \/ \* lines 121-123: openai.OpenAI() or the request raised
                  \E kind \in FailureKinds :
                    /\ ~apiKey => kind = "PERMANENT"
                    /\ idea' = <<>>
                    /\ calls' = Append(calls,
                         Call("generate", PromptTranscript(all_transcripts),
                              kind, <<>>))
                    /\ ui' = Append(ui, Msg("error", "generate", <<"error">>))
                    /\ pc' = IF HasIdea(<<>>) THEN "save" ELSE "idle"
       ELSE /\ ui' = Append(ui, Msg("error", "extract", <<>>))
            /\ pc' = "idle"
            /\ UNCHANGED <<combined_transcript, idea, calls>>
  /\ UNCHANGED <<prog, apiKey, raised, search_keyword, button, videos_df,
                 selected_bound, selected_videos, idx, audio_path,
                 all_transcripts, rows, files>>
  /\ UNCHANGED rwVars

\* lines 130-131: the row the INSERT adds
NewRow(urls_str, transcript, content) ==
  [id |-> Len(rows) + 1, video_urls |-> urls_str, transcript |-> transcript,
   idea |-> content]

\* lines 242-244, with save_idea (lines 125-135)
SaveIdea ==
  /\ prog = "ytpi"
  /\ pc = "save"
  /\ \/ \* lines 127-133: the row is inserted and committed
        /\ rows' = Append(rows, NewRow(UrlsStr(selected_videos),
                                       combined_transcript, idea))
        /\ calls' = Append(calls,
             Call("save", UrlsStr(selected_videos), "ok", combined_transcript))
        /\ ui' = Append(ui, Msg("success", "saved", <<>>))
     \/ \* lines 134-135: sqlite raised, nothing is committed
        /\ UNCHANGED rows
        /\ calls' = Append(calls,
             Call("save", UrlsStr(selected_videos), "PERMANENT", combined_transcript))
        /\ ui' = Append(Append(ui, Msg("error", "save", <<"error">>)), Msg("success", "saved", <<>>))
  /\ pc' = "idle"
  /\ UNCHANGED <<prog, apiKey, raised, search_keyword, button, videos_df,
                 selected_bound, selected_videos, idx, audio_path,
                 all_transcripts, combined_transcript, idea, files>>
  /\ UNCHANGED rwVars

(* ---- src/dsp_streamlit/reportwriter_final.py ---- *)
\* templates a user file can hold; "\n\n" is the blank line between sections
Templates ==
  { <<>>,
    <<"s1">>,
    <<"s1", "\n\n", "s2">>,
    <<"s1", "\n\n", "s2", "\n\n", "s3">> }

\* line 32: sections = template.split('\n\n')
Sections(text) == Split(text, "\n\n")

\* line 57: the text the chain returns for a section
Filled(section) == <<"filled">> \o section

\* line 188: filename = f"{project_name.replace(' ', '_')}_report"
Filename(name) == Replace(name, " ", "_") \o <<"_report">>

\* line 96: filepath = os.path.join("reports", f"{filename}.{format}")
Filepath(filename, fmt) == <<"reports", "/">> \o filename \o <<".", fmt>>

\* lines 16-24: module initialisation
ModuleInit ==
  /\ prog = "report"
  /\ pc = "import"
  /\ IF ~apiKey
       THEN pc' = "crashed" /\ raised' = "ValueError"
       ELSE pc' = "choice" /\ UNCHANGED raised
  /\ UNCHANGED <<prog, apiKey>>
  /\ UNCHANGED ytVars
  /\ UNCHANGED rwVars

\* lines 159-163: the template choice is asked until it is 1 or 2
InputChoice ==
  /\ prog = "report"
  /\ pc = "choice"
  /\ \E answer \in {"1", "2", "x"} :
       /\ inputs_read' = inputs_read + 1
       /\ IF answer \in {"1", "2"}
            THEN /\ choice' = answer
                 /\ pc' = IF answer = "2" THEN "template" ELSE "format"
                 /\ UNCHANGED invalid
            ELSE /\ invalid < MaxInvalid
                 /\ invalid' = invalid + 1
                 /\ UNCHANGED <<choice, pc>>
  /\ UNCHANGED <<prog, apiKey, raised, template, format, project_name,
                 filled_sections, sidx, failed_sections, report_content,
                 reports>>
  /\ UNCHANGED ytVars

\* lines 166-170, with load_template (lines 120-152)
LoadTemplate ==
  /\ prog = "report"
  /\ pc = "template"
  /\ inputs_read' = inputs_read + 1
  /\ \/ \* missing file, unsupported extension or read error: None
        template' = None
     \/ \E text \in Templates : template' = text
  /\ pc' = "format"
  /\ UNCHANGED <<prog, apiKey, raised, choice, format, project_name,
                 filled_sections, sidx, failed_sections, report_content,
                 reports, invalid>>
  /\ UNCHANGED ytVars

\* lines 173-182: the format is asked until it is valid, then the project
InputFormat ==
  /\ prog = "report"
  /\ pc = "format"
  /\ \E answer \in {"md", "pdf", "docs", "x"} :
       IF answer \in {"md", "pdf", "docs"}
         THEN /\ format' = answer
              /\ project_name' = <<"My", " ", "Project">>
              /\ inputs_read' = inputs_read + 4
              /\ pc' = "generate_report"
              /\ UNCHANGED invalid
         ELSE /\ invalid < MaxInvalid
              /\ invalid' = invalid + 1
              /\ inputs_read' = inputs_read + 1
              /\ UNCHANGED <<format, project_name, pc>>
  /\ UNCHANGED <<prog, apiKey, raised, choice, template, filled_sections,
                 sidx, failed_sections, report_content, reports>>
  /\ UNCHANGED ytVars

\* lines 30-34 and 60: generate_report chooses the template or the default
GenerateReport ==
  /\ prog = "report"
  /\ pc = "generate_report"
  /\ IF template # <<>>
       THEN pc' = "fill" /\ sidx' = 1
       ELSE pc' = "default" /\ UNCHANGED sidx
  /\ filled_sections' = <<>>
  /\ UNCHANGED <<prog, apiKey, raised, choice, template, format, project_name,
                 failed_sections, report_content, reports, inputs_read,
                 invalid>>
  /\ UNCHANGED ytVars

\* lines 34-59: one section is filled by the chain; an exception of the chain
\* is not caught anywhere and ends the program
FillSection ==
  /\ prog = "report"
  /\ pc = "fill"
  /\ LET sections == Sections(template) IN
       \/ /\ filled_sections' = Append(filled_sections, Filled(sections[sidx]))
          /\ sidx' = sidx + 1
          /\ IF sidx + 1 > Len(sections)
               THEN /\ report_content' =
                         Join(Append(filled_sections, Filled(sections[sidx])),
                              <<"\n\n">>)
                    /\ pc' = "save_report"
               ELSE pc' = "fill" /\ UNCHANGED report_content
          /\ UNCHANGED <<raised, failed_sections>>
       \/ /\ failed_sections' = failed_sections \cup {sidx}
          /\ raised' = "Exception"
          /\ pc' = "crashed"
          /\ UNCHANGED <<filled_sections, sidx, report_content>>
  /\ UNCHANGED <<prog, apiKey, choice, template, format, project_name,
                 reports, inputs_read, invalid>>
  /\ UNCHANGED ytVars

\* lines 61-89: the default template is filled by one chain call
FillDefault ==
  /\ prog = "report"
  /\ pc = "default"
  /\ \/ /\ report_content' = <<"default report">>
        /\ pc' = "save_report"
        /\ UNCHANGED raised
     \/ /\ raised' = "Exception"
        /\ pc' = "crashed"
        /\ UNCHANGED report_content
  /\ UNCHANGED <<prog, apiKey, choice, template, format, project_name,
                 filled_sections, sidx, failed_sections, reports, inputs_read,
                 invalid>>
  /\ UNCHANGED ytVars

\* lines 91-118 and 188-189: save_report writes the file
SaveReport ==
  /\ prog = "report"
  /\ pc = "save_report"
  /\ reports' = reports \cup
       {[path |-> Filepath(Filename(project_name), format),
         content |-> report_content]}
  /\ pc' = "done"
  /\ UNCHANGED <<prog, apiKey, raised, choice, template, format, project_name,
                 filled_sections, sidx, failed_sections, report_content,
                 inputs_read, invalid>>
  /\ UNCHANGED ytVars

Next ==
  \/ RunScript
  \/ SearchVideos
  \/ GenerateButton
  \/ DownloadAudio
  \/ TranscribeAudio
  \/ RemoveTemp
  \/ GenerateIdea
  \/ SaveIdea
  \/ ModuleInit
  \/ InputChoice
  \/ LoadTemplate
  \/ InputFormat
  \/ GenerateReport
  \/ FillSection
  \/ FillDefault
  \/ SaveReport

Spec == Init /\ [][Next]_vars


(* ---- vocabulary of the properties ---- *)
Range(seq) == {seq[k] : k \in DOMAIN seq}

Selected == 1..Len(selected_videos)

\* the for loop over selected_videos has ended in this run
LoopEnded == idx > Len(selected_videos)

\* the positions in calls of the calls of a stage on a url
StageCalls(stage, url) ==
  {k \in DOMAIN calls : calls[k].stage = stage /\ calls[k].arg = url}

ItemStages == {"download", "transcribe"}

\* the positions in calls of the item stages that raised
FailedCalls ==
  {k \in DOMAIN calls : calls[k].stage \in ItemStages /\ calls[k].result # "ok"}

\* the positions in ui of the errors of the item stages
StageErrors ==
  {k \in DOMAIN ui : ui[k].level = "error" /\ ui[k].stage \in ItemStages}

\* the positions in calls of the transcriptions that returned an empty text
EmptyTexts ==
  {k \in DOMAIN calls :
     calls[k].stage = "transcribe" /\ calls[k].result = "ok" /\ calls[k].out = <<>>}

\* the text transcribe_audio returned for a url in this run (<<>> if none)
TranscriptOf(url) ==
  LET ks == {k \in StageCalls("transcribe", url) : calls[k].result = "ok"}
  IN IF ks = {} THEN <<>> ELSE calls[CHOOSE k \in ks : TRUE].out

\* the rows inserted by this run
SavedRows == {k \in DOMAIN calls : calls[k].stage = "save" /\ calls[k].result = "ok"}

(* ---- C1 ---- *)
\* C1: failure isolation in the video pipeline. The loop over the selected
\* urls is never left before its last url, whatever downloads and
\* transcriptions fail: every url whose turn has passed was downloaded, was
\* transcribed if its download succeeded, and has its transcript in
\* all_transcripts if both succeeded (transcribe_audio returns the empty
\* text to signal a failure, so a success is a non-empty text).
C1_FailureIsolation ==
  /\ idx \in Selected => pc \in {"download", "transcribe", "remove"}
  /\ \A i \in Selected : idx > i =>
       LET url == selected_videos[i] IN
         /\ StageCalls("download", url) # {}
         /\ \A k \in StageCalls("download", url) :
              calls[k].result = "ok" => StageCalls("transcribe", url) # {}
         /\ \A k \in StageCalls("transcribe", url) :
              (calls[k].result = "ok" /\ calls[k].out # <<>>)
                 => calls[k].out \in Range(all_transcripts)

\* the first of two selected urls failed to download, the second one was
\* downloaded and transcribed and its text is in all_transcripts
C1_Witness ==
  /\ Len(selected_videos) = 2
  /\ LoopEnded
  /\ \E k \in StageCalls("download", selected_videos[1]) : calls[k].result # "ok"
  /\ Speech(selected_videos[2]) \in Range(all_transcripts)

(* ---- C2 ---- *)
\* C2: stage order with stop on failure. A transcription directly follows the
\* successful download of the same url; after a failed download no stage runs
\* on that url; idea generation runs after every selected url was downloaded
\* and with at least one non-empty transcript; the insert directly follows an
\* idea generation that returned a non-empty idea.
C2_StageOrder ==
  /\ \A k \in DOMAIN calls : calls[k].stage = "transcribe" =>
       /\ k > 1
       /\ calls[k-1].stage = "download"
       /\ calls[k-1].arg = calls[k].arg
       /\ calls[k-1].result = "ok"
  /\ \A k \in DOMAIN calls :
       (calls[k].stage = "download" /\ calls[k].result # "ok") =>
          \A j \in DOMAIN calls :
            j > k => ~(calls[j].arg = calls[k].arg /\ calls[j].stage # "save")
  /\ \A k \in DOMAIN calls : calls[k].stage = "generate" =>
       /\ \A i \in Selected :
            \E j \in StageCalls("download", selected_videos[i]) : j < k
       /\ \E j \in DOMAIN calls :
            /\ j < k
            /\ calls[j].stage = "transcribe"
            /\ calls[j].result = "ok"
            /\ calls[j].out # <<>>
       /\ \A j \in DOMAIN calls : j > k => calls[j].stage = "save"
  /\ \A k \in DOMAIN calls : calls[k].stage = "save" =>
       /\ k > 1
       /\ calls[k-1].stage = "generate"
       /\ calls[k-1].result = "ok"
       /\ calls[k-1].out # <<>>
  /\ pc = "transcribe" =>
       /\ calls # <<>>
       /\ calls[Len(calls)] = Call("download", selected_videos[idx], "ok", audio_path)
  /\ pc = "save" => LoopEnded /\ idea # <<>>

\* a run in which a download failed and, later, the idea was saved
C2_Witness ==
  /\ \E k \in DOMAIN calls : calls[k].stage = "download" /\ calls[k].result # "ok"
  /\ \E k \in DOMAIN calls : calls[k].stage = "transcribe"
  /\ SavedRows # {}


(* ---- C3 ---- *)
\* the entries of a url in the result of the run: its transcript in
\* all_transcripts, and the stage errors shown whose text names the video
TranscriptEntries(url) ==
  {k \in DOMAIN all_transcripts :
     TranscriptOf(url) # <<>> /\ all_transcripts[k] = TranscriptOf(url)}

ErrorEntries(url) ==
  {k \in StageErrors : url[Len(url)] \in Range(ui[k].detail)}

\* C3 as stated: once the loop has ended every selected url has exactly one
\* entry, its transcript or a stage error that names the url.
C3_ExactlyOneEntry ==
  LoopEnded =>
    \A i \in Selected :
      Cardinality(TranscriptEntries(selected_videos[i]))
        + Cardinality(ErrorEntries(selected_videos[i])) = 1

\* C3 amended: once the loop has ended every selected url is accounted for
\* exactly once, by its non-empty transcript in all_transcripts, by one error
\* that names the stage that raised (download or transcribe), or by a
\* transcription that returned the empty text without raising, which leaves
\* no entry at all; a url whose stage raised has no transcript entry, and
\* each stage has as many errors shown as calls that raised.
C3_AccountedOnce ==
  LoopEnded =>
    /\ Len(all_transcripts) + Cardinality(StageErrors) + Cardinality(EmptyTexts)
         = Len(selected_videos)
    /\ \A i \in Selected :
         LET url == selected_videos[i] IN
           /\ Cardinality(TranscriptEntries(url)) <= 1
           /\ (\E k \in FailedCalls : calls[k].arg = url)
                => /\ TranscriptEntries(url) = {}
                   /\ Speech(url) \notin Range(all_transcripts)
    /\ \A stage \in ItemStages :
         Cardinality({k \in FailedCalls : calls[k].stage = stage})
           = Cardinality({m \in StageErrors : ui[m].stage = stage})

\* the loop ended with one url dropped without any entry (empty text, no
\* error) and another one reported by a download error
C3_Witness ==
  /\ LoopEnded
  /\ EmptyTexts # {}
  /\ \E m \in StageErrors : ui[m].stage = "download"

(* ---- C9 ---- *)
\* C9 as stated: a stage of a video that fails transiently for the first time
\* is attempted again on the same url.
C9_TransientRetried ==
  LoopEnded =>
    \A k \in FailedCalls :
      (/\ calls[k].result = "TRANSIENT"
       /\ \A j \in FailedCalls :
            j < k => ~(calls[j].stage = calls[k].stage /\ calls[j].arg = calls[k].arg))
        => \E j \in DOMAIN calls :
             j > k /\ calls[j].stage = calls[k].stage /\ calls[j].arg = calls[k].arg

\* C9 amended: there is no retry. Each stage of each selected video is
\* attempted at most once in a run; every failure, transient or permanent, is
\* shown at once as one error, and the video contributes no transcript.
C9_SingleAttempt ==
  /\ \A i \in Selected : \A stage \in ItemStages \cup {"remove"} :
       Cardinality(StageCalls(stage, selected_videos[i])) <= 1
  /\ Cardinality(FailedCalls) = Cardinality(StageErrors)
  /\ \A k \in FailedCalls : Speech(calls[k].arg) \notin Range(all_transcripts)

\* the loop ended after a transient failure of a download
C9_Witness ==
  /\ LoopEnded
  /\ \E k \in FailedCalls :
       calls[k].stage = "download" /\ calls[k].result = "TRANSIENT"

(* ---- C10 ---- *)
RECURSIVE ExpectedTranscript(_)
\* the non-empty transcripts of the first n selected urls, one per line
ExpectedTranscript(n) ==
  IF n = 0 THEN <<>>
  ELSE LET before == ExpectedTranscript(n - 1)
           text == TranscriptOf(selected_videos[n])
       IN IF text = <<>> THEN before
          ELSE IF before = <<>> THEN text
          ELSE before \o <<"\n">> \o text

RECURSIVE ExpectedUrls(_)
\* the first n selected urls, separated by a comma and a space
ExpectedUrls(n) ==
  IF n = 0 THEN <<>>
  ELSE IF n = 1 THEN selected_videos[1]
  ELSE ExpectedUrls(n - 1) \o <<", ">> \o selected_videos[n]

\* the run has just inserted a row
JustSaved ==
  /\ calls # <<>>
  /\ calls[Len(calls)].stage = "save"
  /\ calls[Len(calls)].result = "ok"

\* C10: contents of the persisted record. The row a run inserts holds in
\* transcript the non-empty transcripts of the selected urls, in selection
\* order, one per line, which is the text idea generation was given, and in
\* video_urls the whole selection in order, joined by ", ", the urls that
\* failed included.
C10_RecordContents ==
  JustSaved =>
    LET row == rows[Len(rows)] IN
      /\ row.transcript = ExpectedTranscript(Len(selected_videos))
      /\ row.transcript = calls[Len(calls) - 1].arg
      /\ calls[Len(calls) - 1].stage = "generate"
      /\ row.video_urls = ExpectedUrls(Len(selected_videos))
      /\ row.idea = idea
      /\ row.idea # <<>>

\* a row was inserted for two selected urls of which one failed to download
C10_Witness ==
  /\ JustSaved
  /\ Len(selected_videos) = 2
  /\ \E k \in FailedCalls : calls[k].stage = "download"

(* ---- C4 ---- *)
\* C4 as stated: once the turn of a selected url has passed, no temporary
\* audio file of that url exists.
C4_ScratchReleased ==
  \A i \in Selected : idx > i =>
    /\ AudioPath(selected_videos[i]) \notin files
    /\ PartialPath(selected_videos[i]) \notin files

(* ---- C5 ---- *)
\* C5 as stated: a run inserts at most one row, and a run that tells the user
\* that the idea was generated and saved has inserted exactly one row.
C5_SavedOnceWhenReported ==
  /\ Cardinality(SavedRows) <= 1
  /\ (\E m \in DOMAIN ui : ui[m].level = "success") => Cardinality(SavedRows) = 1

(* ---- C6 ---- *)
\* C6 as stated: without OPENAI_API_KEY no video is downloaded or
\* transcribed, no console input is read and no section is filled.
C6_MissingKeyFatal ==
  ~apiKey =>
    /\ \A k \in DOMAIN calls : calls[k].stage \notin ItemStages
    /\ inputs_read = 0
    /\ filled_sections = <<>>

(* ---- C7 ---- *)
\* C7 as stated: a run in which the button is pressed with no video selected
\* ends without an exception and without any collaborator call.
C7_EmptyBatchReturns ==
  (prog = "ytpi" /\ button /\ pc = "idle" /\ selected_videos = <<>>) =>
    /\ raised = "none"
    /\ calls = <<>>

(* ---- C8 ---- *)
\* C8 as stated: when the program has ended, a section failed and others were
\* filled, the report with the filled sections has been exported.
C8_PartialReportExported ==
  (/\ prog = "report"
   /\ pc \in {"done", "crashed"}
   /\ failed_sections # {}
   /\ filled_sections # <<>>)
    => \E r \in reports : r.content = Join(filled_sections, <<"\n\n">>)

====
